---- MODULE Spec2Model ----
(***************************************************************************)
(* Model of the opfonts build pipeline: Unicode range parsing (subset.py), *)
(* the build orchestrator with cross-script dedup (pipeline.py) and the    *)
(* font merger (merge.py).                                                  *)
(*                                                                          *)
(* Text is modelled as a sequence of one-character strings, so that        *)
(* parsing is computed character by character as the Python code does.     *)
(***************************************************************************)
EXTENDS Integers, Sequences, FiniteSets, TLC

VARIABLES
    \* ---- parse_unicode_ranges (subset.py) ----
    p_items,        \* the range strings handed to parse_unicode_ranges, with their shape
    p_result,       \* the outcome of the call: returned list or ValueError
    \* ---- _resolve_codepoints (pipeline.py) ----
    r_charset,      \* script.charset_file of the script resolved ("" = None)
    r_result,       \* the outcome of _resolve_codepoints for ranges p_items and r_charset
    \* ---- extract_from_pot (extract.py) ----
    e_lines,        \* text.splitlines() of the .pot text read
    e_result        \* the outcome of extract_from_pot: the set returned

pvars == <<p_items, p_result, r_charset, r_result, e_lines, e_result>>

(***************************************************************************)
(* Bounds                                                                   *)
(***************************************************************************)
MaxCp == 18            \* largest codepoint written in a range string
MaxRanges == 2         \* longest list of range strings

(***************************************************************************)
(* Text helpers: str.strip, str.upper, str.startswith, str.split("-", 1)   *)
(***************************************************************************)
HexDigits == <<"0","1","2","3","4","5","6","7","8","9","A","B","C","D","E","F">>
LowerHex == <<"a","b","c","d","e","f">>

IsSpace(c) == c = " "

RECURSIVE LStrip(_)
LStrip(s) == IF s # <<>> /\ IsSpace(Head(s)) THEN LStrip(Tail(s)) ELSE s

RECURSIVE RStrip(_)
RStrip(s) == IF s # <<>> /\ IsSpace(s[Len(s)]) THEN RStrip(SubSeq(s, 1, Len(s) - 1)) ELSE s

Strip(s) == RStrip(LStrip(s))

UpperChar(c) ==
    IF \E k \in 1..6 : LowerHex[k] = c
    THEN HexDigits[10 + (CHOOSE k \in 1..6 : LowerHex[k] = c)]
    ELSE IF c = "u" THEN "U"
    ELSE IF c = "x" THEN "X"
    ELSE c

Upper(s) == [k \in 1..Len(s) |-> UpperChar(s[k])]

StartsWith(s, p) == Len(s) >= Len(p) /\ SubSeq(s, 1, Len(p)) = p

Contains(s, c) == \E k \in 1..Len(s) : s[k] = c

\* position of the first occurrence of c in s (s contains c)
FirstIndex(s, c) == CHOOSE k \in 1..Len(s) : s[k] = c /\ \A j \in 1..(k - 1) : s[j] # c

(***************************************************************************)
(* int(s, 16): surrounding whitespace, one optional sign, an optional 0x   *)
(* prefix, then hex digits with single underscores between them.           *)
(***************************************************************************)
IsHexDigit(c) == \E k \in 1..16 : HexDigits[k] = UpperChar(c)
HexVal(c) == (CHOOSE k \in 1..16 : HexDigits[k] = UpperChar(c)) - 1

ValueError == [ok |-> FALSE, val |-> 0]
IntOk(n) == [ok |-> TRUE, val |-> n]

\* digits with grouping underscores: no leading, trailing or doubled "_"
DigitsOk(d) ==
    /\ d # <<>>
    /\ \A k \in 1..Len(d) : IsHexDigit(d[k]) \/ d[k] = "_"
    /\ d[1] # "_"
    /\ d[Len(d)] # "_"
    /\ \A k \in 1..(Len(d) - 1) : ~(d[k] = "_" /\ d[k + 1] = "_")

RECURSIVE DigitsVal(_, _)
DigitsVal(d, acc) ==
    IF d = <<>> THEN acc
    ELSE IF Head(d) = "_" THEN DigitsVal(Tail(d), acc)
    ELSE DigitsVal(Tail(d), acc * 16 + HexVal(Head(d)))

HexInt(str) ==
    LET s == Strip(str)
        neg == s # <<>> /\ Head(s) = "-"
        t == IF s # <<>> /\ Head(s) \in {"+", "-"} THEN Tail(s) ELSE s
        pre == Len(t) >= 2 /\ t[1] = "0" /\ UpperChar(t[2]) = "X"
        u == IF pre THEN SubSeq(t, 3, Len(t)) ELSE t
        d == IF pre /\ u # <<>> /\ Head(u) = "_" THEN Tail(u) ELSE u
    IN  IF DigitsOk(d)
        THEN IntOk(IF neg THEN 0 - DigitsVal(d, 0) ELSE DigitsVal(d, 0))
        ELSE ValueError

(***************************************************************************)
(* parse_unicode_ranges                                                     *)
(***************************************************************************)
\* range(start, end): the end of the range left out
PyRange_exclusive(start, end) == {n \in start..(end - 1) : TRUE}

\* range(start, end + 1)
PyRange(start, end) == {n \in start..end : TRUE}

\* one iteration of the loop body: the codepoints the range adds, or ValueError
ParseOne(str) ==
    LET r == Upper(Strip(str))
    IN  IF ~StartsWith(r, <<"U", "+">>) THEN [ok |-> FALSE, cps |-> {}]
        ELSE LET b == SubSeq(r, 3, Len(r))
             IN  IF Contains(b, "-")
                 THEN LET k == FirstIndex(b, "-")
                          start == HexInt(SubSeq(b, 1, k - 1))
                          end == HexInt(SubSeq(b, k + 1, Len(b)))
                      IN  IF start.ok /\ end.ok
                          THEN [ok |-> TRUE, cps |-> PyRange(start.val, end.val)]
                          ELSE [ok |-> FALSE, cps |-> {}]
                 ELSE LET v == HexInt(b)
                      IN  IF v.ok THEN [ok |-> TRUE, cps |-> {v.val}]
                          ELSE [ok |-> FALSE, cps |-> {}]

\* sorted(set)
RECURSIVE Sorted(_)
Sorted(S) ==
    IF S = {} THEN <<>>
    ELSE LET m == CHOOSE x \in S : \A y \in S : x <= y
         IN  <<m>> \o Sorted(S \ {m})

RECURSIVE ParseLoop(_, _)
ParseLoop(ranges, codepoints) ==
    IF ranges = <<>> THEN [st |-> "returned", cps |-> Sorted(codepoints)]
    ELSE LET one == ParseOne(Head(ranges))
         IN  IF one.ok THEN ParseLoop(Tail(ranges), codepoints \cup one.cps)
             ELSE [st |-> "ValueError", cps |-> <<>>]

parse_unicode_ranges(ranges) == ParseLoop(ranges, {})

(***************************************************************************)
(* Range strings as a configuration author writes them.  An item records   *)
(* the shape (kind, a, b, style); Text(item) is the string itself, the     *)
(* only thing the parser sees.                                              *)
(***************************************************************************)
RECURSIVE ToHex(_)
ToHex(n) == IF n < 16 THEN <<HexDigits[n + 1]>> ELSE ToHex(n \div 16) \o <<HexDigits[(n % 16) + 1]>>

LowerChar(c) ==
    IF \E k \in 11..16 : HexDigits[k] = c
    THEN LowerHex[(CHOOSE k \in 11..16 : HexDigits[k] = c) - 10]
    ELSE IF c = "U" THEN "u" ELSE c

Lower(s) == [k \in 1..Len(s) |-> LowerChar(s[k])]

\* "%04X"-like zero padding to two digits
Pad2(h) == IF Len(h) < 2 THEN <<"0">> \o h ELSE h

Styles == {"plain", "lower", "padded", "spaced"}

Styled(s, style) ==
    CASE style = "plain" -> s
      [] style = "lower" -> Lower(s)
      [] style = "padded" -> s
      [] style = "spaced" -> <<" ">> \o s \o <<" ">>

Num(n, style) == IF style = "padded" THEN Pad2(ToHex(n)) ELSE ToHex(n)

Kinds == {"single", "range", "reversed", "nostart", "noend", "noprefix",
          "noprefixrange", "nonhex", "nonhexstart", "nonhexend"}

WellFormedKinds == {"single", "range"}

Text(it) ==
    LET A == Num(it.a, it.style)
        B == Num(it.b, it.style)
        U == <<"U", "+">>
        raw == CASE it.kind = "single" -> U \o A
                 [] it.kind = "range" -> U \o A \o <<"-">> \o B
                 [] it.kind = "reversed" -> U \o A \o <<"-">> \o B
                 [] it.kind = "nostart" -> U \o <<"-">> \o B
                 [] it.kind = "noend" -> U \o A \o <<"-">>
                 [] it.kind = "noprefix" -> A
                 [] it.kind = "noprefixrange" -> A \o <<"-">> \o B
                 [] it.kind = "nonhex" -> U \o A \o <<"G">>
                 [] it.kind = "nonhexstart" -> U \o <<"G">> \o A \o <<"-">> \o B
                 [] it.kind = "nonhexend" -> U \o A \o <<"-">> \o B \o <<"G">>
    IN  Styled(raw, it.style)

\* the codepoints written in the items of a list
CpValues == {1, 10, MaxCp}

Items ==
    {it \in [kind : Kinds, a : CpValues, b : CpValues, style : Styles] :
        /\ it.kind = "reversed" => it.a > it.b
        /\ it.kind # "reversed" => it.a <= it.b
        /\ it.kind \in {"single", "noend", "noprefix", "nonhex"} => it.b = it.a
        /\ it.kind = "nostart" => it.a = it.b
        /\ it.kind \notin WellFormedKinds => it.style = "plain"}

ItemLists == UNION {[1..n -> Items] : n \in 0..MaxRanges}

Texts(items) == [k \in 1..Len(items) |-> Text(items[k])]

NotCalled == [st |-> "none", cps |-> <<>>]

PInit ==
    /\ p_items \in ItemLists
    /\ p_result = NotCalled
    /\ r_charset = ""
    /\ r_result = NotCalled
    /\ e_lines = <<>>
    /\ e_result = [st |-> "none", cps |-> {}]

\* the call parse_unicode_ranges(ranges)
ParseCall ==
    /\ p_result.st = "none"
    /\ p_result' = parse_unicode_ranges(Texts(p_items))
    /\ UNCHANGED <<p_items, r_charset, r_result, e_lines, e_result>>

(***************************************************************************)
(* Environment of build(): source fonts in the cache directory, charset    *)
(* files, and the scripts a configuration may list.                         *)
(***************************************************************************)
MaxScripts == 2        \* longest config.scripts list

Names == {"a", "b"}                      \* ScriptEntry.name
Fonts == {"Fa", "Fb", "Fc"}              \* ScriptEntry.font (file name in the cache)

\* getBestCmap().keys() of each source font; the files of one family (names beginning
\* with Fa, Fb, ...) map the same codepoints and have the same metrics in every weight
FontCmap(f) ==
    CASE SubSeq(f, 1, 2) = "Fa" -> {1, 2}
      [] SubSeq(f, 1, 2) = "Fb" -> {2, 3}
      [] SubSeq(f, 1, 2) = "Fc" -> {}
      [] SubSeq(f, 1, 2) = "Fd" -> {3}

\* outline table, head.unitsPerEm, OS/2 sCapHeight and sxHeight, and the hmtx entry
\* (advance width, left side bearing) of a glyph of each source font
FontMetrics(f) ==
    CASE SubSeq(f, 1, 2) = "Fa" -> [outline |-> "CFF ", upm |-> 1000, cap |-> 700, xh |-> 500, width |-> 600, lsb |-> 50]
      [] SubSeq(f, 1, 2) = "Fb" -> [outline |-> "glyf", upm |-> 2048, cap |-> 1436, xh |-> 1050, width |-> 1200, lsb |-> 100]
      [] SubSeq(f, 1, 2) = "Fc" -> [outline |-> "CFF ", upm |-> 1000, cap |-> 660, xh |-> 480, width |-> 500, lsb |-> 40]
      [] SubSeq(f, 1, 2) = "Fd" -> [outline |-> "glyf", upm |-> 1000, cap |-> 0, xh |-> 0, width |-> 500, lsb |-> 0]

\* fonts of the configurations that exercise scaling: Fd has no sCapHeight
ScaleFonts == Fonts \cup {"Fd"}

\* [font] target_cap_ratio as written in op_fonts.toml: the decimal n/d (0 = not set)
TargetRatios ==
    {[n |-> 0, d |-> 1], [n |-> 6993, d |-> 10000], [n |-> 7002, d |-> 10000], [n |-> 7007, d |-> 10000]}

\* load_charset_file(path) of each charset file
CharsetCps(c) ==
    CASE c = "cs1" -> <<1>>
      [] c = "cs2" -> <<2, 10, 20>>

\* unicode_ranges / charset_file as written in op_fonts.toml
R_1_3 == <<"U", "+", "1", "-", "3">>
R_2_3 == <<"u", "+", "0", "2", "-", "0", "3">>
R_1 == <<"U", "+", "1">>
R_3 == <<"U", "+", "3">>
R_bad == <<"U", "+", "G">>

Coverages ==
    { [unicode_ranges |-> <<R_1_3>>, charset_file |-> ""],
      [unicode_ranges |-> <<R_2_3>>, charset_file |-> ""],
      [unicode_ranges |-> <<R_1>>, charset_file |-> ""],
      [unicode_ranges |-> <<>>, charset_file |-> ""],
      [unicode_ranges |-> <<R_3>>, charset_file |-> "cs1"],
      [unicode_ranges |-> <<R_bad>>, charset_file |-> ""] }

\* a disabled script is never read past its enabled flag
DisabledScript ==
    [name |-> "a", enabled |-> FALSE, font |-> "Fa", unicode_ranges |-> <<R_1>>, charset_file |-> "",
     scale |-> TRUE]

ScriptEntries ==
    {DisabledScript} \cup
    { [name |-> n, enabled |-> TRUE, font |-> f,
       unicode_ranges |-> c.unicode_ranges, charset_file |-> c.charset_file, scale |-> TRUE] :
         n \in Names, f \in Fonts, c \in Coverages }

Configs == UNION {[1..n -> ScriptEntries] : n \in 0..MaxScripts}

\* scripts of the configurations that exercise scaling: every script asks for U+1-3,
\* with or without the scale opt-out
ScaleEntries ==
    {DisabledScript} \cup
    { [name |-> n, enabled |-> TRUE, font |-> f,
       unicode_ranges |-> <<R_1_3>>, charset_file |-> "", scale |-> sc] :
         n \in Names, f \in ScaleFonts, sc \in BOOLEAN }

ScaleConfigs == UNION {[1..n -> ScaleEntries] : n \in 0..MaxScripts}

(***************************************************************************)
(* _resolve_codepoints                                                      *)
(***************************************************************************)
SeqToSet(q) == {q[k] : k \in 1..Len(q)}

\* the merge with unicode_ranges (lines 40-42) left out
_resolve_codepoints_charset_only(script) ==
    IF script.charset_file # ""
    THEN [st |-> "returned", cps |-> Sorted(SeqToSet(CharsetCps(script.charset_file)))]
    ELSE parse_unicode_ranges(script.unicode_ranges)

_resolve_codepoints(script) ==
    IF script.charset_file # ""
    THEN LET charset_cps == SeqToSet(CharsetCps(script.charset_file))
         IN  IF script.unicode_ranges # <<>>
             THEN LET parsed == parse_unicode_ranges(script.unicode_ranges)
                  IN  IF parsed.st = "ValueError" THEN parsed
                      ELSE [st |-> "returned", cps |-> Sorted(charset_cps \cup SeqToSet(parsed.cps))]
             ELSE [st |-> "returned", cps |-> Sorted(charset_cps)]
    ELSE parse_unicode_ranges(script.unicode_ranges)

\* the call _resolve_codepoints(script, config) for a script with ranges p_items
ResolveCall ==
    /\ r_result.st = "none"
    /\ r_result' = _resolve_codepoints([charset_file |-> r_charset,
                                        unicode_ranges |-> Texts(p_items)])
    /\ UNCHANGED <<p_items, p_result, r_charset, e_lines, e_result>>

(***************************************************************************)
(* subset_font(src, codepoints=..., output_path=out)                        *)
(***************************************************************************)
\* subset_font without its two raise statements: an empty subset is saved
subset_font_noraise(srcCmap, codepoints) ==
    [st |-> "saved", cmap |-> SeqToSet(codepoints) \cap srcCmap]

\* the subset's character map, or ValueError when nothing is requested or present
subset_font(srcCmap, codepoints) ==
    IF codepoints = <<>> THEN [st |-> "ValueError", cmap |-> {}]
    ELSE LET present == SelectSeq(codepoints, LAMBDA cp : cp \in srcCmap)
         IN  IF present = <<>> THEN [st |-> "ValueError", cmap |-> {}]
             ELSE [st |-> "saved", cmap |-> SeqToSet(codepoints) \cap srcCmap]

(***************************************************************************)
(* Python float arithmetic (IEEE 754 binary64, round to nearest, ties to   *)
(* even), computed on exact integers.  A big number is a tuple of Limbs    *)
(* limbs in base 2^LimbBits, least significant first.  A double is the     *)
(* record [m, e] of value m * 2^e with 2^52 <= m < 2^53, or FlZero.        *)
(***************************************************************************)
LimbBits == 14
LimbBase == 16384
Limbs == 9
MantBits == 53

\* a big natural number is the tuple of its Limbs limbs in base 2^LimbBits, lowest first
Big(f) == <<f[1], f[2], f[3], f[4], f[5], f[6], f[7], f[8], f[9]>>
BigOf(n) == <<n % LimbBase, n \div LimbBase, 0, 0, 0, 0, 0, 0, 0>>
BigZero == BigOf(0)
Limb(x, j) == IF j \in 1..Limbs THEN x[j] ELSE 0

\* the limbs of x from the i-th on, with carry c propagated
RECURSIVE Carry(_, _, _)
Carry(x, i, c) ==
    IF i > Limbs THEN <<>>
    ELSE <<(x[i] + c) % LimbBase>> \o Carry(x, i + 1, (x[i] + c) \div LimbBase)

\* x * v for 0 <= v <= LimbBase
BigMulSmall(x, v) == Carry([i \in 1..Limbs |-> x[i] * v], 1, 0)

\* the limbs of x - y from the i-th on with borrow b, for x >= y
RECURSIVE Borrow(_, _, _, _)
Borrow(x, y, i, b) ==
    IF i > Limbs THEN <<>>
    ELSE LET d == x[i] - y[i] - b
         IN  <<IF d < 0 THEN d + LimbBase ELSE d>> \o Borrow(x, y, i + 1, IF d < 0 THEN 1 ELSE 0)

\* x < y, decided at the most significant limb that differs
BigLess(x, y) ==
    \E i \in 1..Limbs : x[i] < y[i] /\ \A j \in (i + 1)..Limbs : x[j] = y[j]

\* x * 2^k
BigShl(x, k) ==
    LET q == k \div LimbBits
        p == 2^(k % LimbBits)
    IN  Big([i \in 1..Limbs |->
                ((Limb(x, i - q) * p) % LimbBase) + ((Limb(x, i - q - 1) * p) \div LimbBase)])

\* floor(x / 2^k)
BigShr(x, k) ==
    LET q == k \div LimbBits
        p == 2^(k % LimbBits)
    IN  Big([i \in 1..Limbs |->
                (Limb(x, i + q) \div p) + ((Limb(x, i + q + 1) % p) * (LimbBase \div p))])

\* number of bits of x > 0
BitLen(x) ==
    LET t == CHOOSE i \in 1..Limbs : x[i] # 0 /\ \A j \in (i + 1)..Limbs : x[j] = 0
        b == CHOOSE j \in 1..LimbBits : 2^(j - 1) <= x[t] /\ x[t] < 2^j
    IN  (t - 1) * LimbBits + b

\* x / 2^k rounded to the nearest integer, ties to even: fl = floor(x / 2^k) is rounded
\* up when the remainder is above half, or is half and fl is odd
BigShrRne(x, k) ==
    IF k = 0 THEN x
    ELSE CHOOSE r \in UNION {
             { IF BigLess(half, rem) \/ (rem = half /\ fl[1] % 2 = 1)
               THEN Carry([fl EXCEPT ![1] = @ + 1], 1, 0) ELSE fl :
                   rem \in {Borrow(x, BigShl(fl, k), 1, 0)}, half \in {BigShl(BigOf(1), k - 1)} } :
             fl \in {BigShr(x, k)} } : TRUE

\* a double >= 0 is [m, e] with value m * 2^e and 2^52 <= m < 2^53, or FlZero
FlZero == [m |-> BigZero, e |-> 0]

\* the double nearest to x * 2^e: x of n bits is rounded to MantBits bits, and a rounded
\* mantissa that reached 2^MantBits is halved
FlRound(x, e) ==
    IF x = BigZero THEN FlZero
    ELSE CHOOSE f \in UNION {
             IF n <= MantBits THEN {[m |-> BigShl(x, MantBits - n), e |-> e - (MantBits - n)]}
             ELSE { IF BitLen(r) > MantBits
                    THEN [m |-> BigShr(r, 1), e |-> e + (n - MantBits) + 1]
                    ELSE [m |-> r, e |-> e + (n - MantBits)] :
                        r \in {BigShrRne(x, n - MantBits)} } :
             n \in {BitLen(x)} } : TRUE

\* float(n) for an int 0 <= n < 2^28
FlOfInt(n) == FlRound(BigOf(n), 0)

\* one digit of schoolbook long division in base 2^LimbBits (Knuth's algorithm D):
\* v has n limbs and a top limb >= LimbBase / 2, and r < v * LimbBase^(j + 1); the digit
\* is the largest d with d * v * LimbBase^j <= r, at most 2 below the estimate from the
\* top limbs
DivDigit(r, v, n, j) ==
    LET num == Limb(r, n + j + 1) * LimbBase + Limb(r, n + j)
        est == IF num \div v[n] >= LimbBase THEN LimbBase - 1 ELSE num \div v[n]
    IN  CHOOSE s \in UNION {
            { [d |-> d, r |-> Borrow(r, BigMulSmall(vj, d), 1, 0)] :
                d \in {k \in {est - 2, est - 1, est} :
                          /\ k >= 0
                          /\ ~BigLess(r, BigMulSmall(vj, k))
                          /\ k < est => BigLess(r, BigMulSmall(vj, k + 1))} } :
            vj \in {BigShl(v, LimbBits * j)} } : TRUE

\* digits j, j - 1, ..., 0 of the quotient, and the remainder
RECURSIVE DivDigits(_, _, _, _, _)
DivDigits(r, v, n, j, q) ==
    CHOOSE res \in { IF j = 0 THEN [q |-> [q EXCEPT ![j + 1] = step.d], r |-> step.r]
                     ELSE DivDigits(step.r, v, n, j - 1, [q EXCEPT ![j + 1] = step.d]) :
                         step \in {DivDigit(r, v, n, j)} } : TRUE

\* floor(u / v) and whether the division is exact, for 0 < v and u < 2^((Limbs - 2) * LimbBits):
\* u and v are shifted so that the top limb of v, of n limbs, is at least LimbBase / 2
BigDivMod(u, v) ==
    CHOOSE res \in UNION {
        { [q |-> d.q, exact |-> d.r = BigZero] :
            d \in {LET n == (bits + LimbBits - 1) \div LimbBits
                   IN  DivDigits(BigShl(u, n * LimbBits - bits), BigShl(v, n * LimbBits - bits),
                                 n, Limbs - 1 - n, BigZero)} } :
        bits \in {BitLen(v)} } : TRUE

\* x / y for doubles x, y > 0: the quotient of the mantissas to 56 or 57 bits with a
\* sticky bit appended for the remainder, then rounded
FlDiv(x, y) ==
    CHOOSE f \in UNION {
        { FlRound([q2 EXCEPT ![1] = @ + (IF d.exact THEN 0 ELSE 1)], x.e - y.e - (MantBits + 4)) :
            q2 \in {BigShl(d.q, 1)} } :
        d \in {BigDivMod(BigShl(x.m, MantBits + 3), y.m)} } : TRUE

\* x < y for doubles x, y >= 0
FlLess(x, y) ==
    IF y = FlZero THEN FALSE
    ELSE IF x = FlZero THEN TRUE
    ELSE x.e < y.e \/ (x.e = y.e /\ BigLess(x.m, y.m))

\* abs(x - y) for doubles x, y >= 0 whose exponents are at most 2 * LimbBits apart
FlAbsDiff(x, y) ==
    IF x = FlZero THEN y ELSE IF y = FlZero THEN x
    ELSE LET e == IF x.e < y.e THEN x.e ELSE y.e
         IN  CHOOSE f \in { FlRound(IF BigLess(a, b) THEN Borrow(b, a, 1, 0) ELSE Borrow(a, b, 1, 0), e) :
                               a \in {BigShl(x.m, x.e - e)}, b \in {BigShl(y.m, y.e - e)} } : TRUE

\* v * x for an int 0 <= v < 2^LimbBits and a double x
FlMulInt(v, x) == IF v = 0 \/ x = FlZero THEN FlZero ELSE FlRound(BigMulSmall(x.m, v), x.e)

\* round(x) for a double 0 <= x < 2^28: nearest integer, ties to even
PyRound(x) ==
    IF x = FlZero \/ 0 - x.e > MantBits + 1 THEN 0
    ELSE CHOOSE v \in { r[1] + r[2] * LimbBase :
                          r \in {IF x.e >= 0 THEN BigShl(x.m, x.e) ELSE BigShrRne(x.m, 0 - x.e)} } : TRUE

\* n / d for ints n, d > 0; also the double a decimal literal n/d denotes
Ratio(n, d) == FlDiv(FlOfInt(n), FlOfInt(d))

(***************************************************************************)
(* _get_cap_ratio and _scale_to_target                                      *)
(*                                                                          *)
(* A font file is a record: its character map, outline table, unitsPerEm,  *)
(* sCapHeight, sxHeight, the hmtx entry of a glyph, and drawn, the list of *)
(* affine scales its charstrings were redrawn with.                         *)
(***************************************************************************)
\* the double config.metrics.target_cap_ratio holds (only its sign matters when <= 0)
FlOfConfig(c) == IF c.n <= 0 THEN FlZero ELSE Ratio(c.n, c.d)

\* cap / upm if upm and cap > 0 else 0.0
_get_cap_ratio(font) ==
    IF font.upm # 0 /\ font.cap > 0 THEN Ratio(font.cap, font.upm) ELSE FlZero

\* the test with the threshold ten times larger
NoOp_wide(scale) == FlLess(FlAbsDiff(scale, FlOfInt(1)), Ratio(1, 100))

\* abs(scale - 1.0) < 0.001
NoOp(scale) == FlLess(FlAbsDiff(scale, FlOfInt(1)), Ratio(1, 1000))

\* round(v * scale) if v else 0
ScaleRound(v, scale) == IF v # 0 THEN PyRound(FlMulInt(v, scale)) ELSE 0

MetricsOf(font) ==
    [outline |-> font.outline, upm |-> font.upm, cap |-> font.cap, xh |-> font.xh,
     width |-> font.width, lsb |-> font.lsb]

\* the numbers _scale_to_target computes for a font of metrics mt, lines 215-256:
\* source_ratio = source_cap / upm; scale = target_cap_ratio / source_ratio; the early
\* returns, else the rewritten hmtx (CFF only) and OS/2 values
ScaleNumbers(target, mt) ==
    IF mt.cap <= 0 THEN [kind |-> "nocap", scale |-> FlZero, after |-> mt]
    ELSE CHOOSE r \in {
             IF NoOp(scale) THEN [kind |-> "noop", scale |-> scale, after |-> mt]
             ELSE LET cff == mt.outline = "CFF "
                  IN  [kind |-> "scaled", scale |-> scale,
                       after |-> [outline |-> mt.outline, upm |-> mt.upm,
                                  cap |-> ScaleRound(mt.cap, scale),
                                  xh |-> ScaleRound(mt.xh, scale),
                                  width |-> IF cff THEN ScaleRound(mt.width, scale) ELSE mt.width,
                                  lsb |-> IF cff THEN ScaleRound(mt.lsb, scale) ELSE mt.lsb]] :
             scale \in {FlDiv(target, Ratio(mt.cap, mt.upm))} } : TRUE

\* ScaleNumbers tabulated for the target ratios a build can use (a configured one or a
\* source font's own) and the metrics a subset file can have after up to n calls
RECURSIVE ScaleMemo(_, _)
ScaleMemo(table, n) ==
    IF n = 0 THEN table
    ELSE LET known == DOMAIN table
             targets == ({FlOfConfig(c) : c \in TargetRatios} \cup
                         {_get_cap_ratio(FontMetrics(f)) : f \in ScaleFonts}) \ {FlZero}
             reached(t) == {FontMetrics(f) : f \in ScaleFonts} \cup
                           {table[k].after : k \in {j \in known : j[1] = t}}
             fresh == UNION {{<<t, mt>> : mt \in reached(t)} : t \in targets} \ known
         IN  ScaleMemo(table @@ [k \in fresh |-> ScaleNumbers(k[1], k[2])], n - 1)

ScaleTable == ScaleMemo([k \in {} |-> 0], MaxScripts)

\* _scale_to_target(font_path, target_cap_ratio): the file afterwards, whether it was
\* saved, and the scale computed; the charstrings are redrawn for "CFF " only
_scale_to_target(font, target) ==
    CHOOSE call \in {
        [kind |-> r.kind, scale |-> r.scale, saved |-> r.kind = "scaled",
         font |-> [exists |-> font.exists, cmap |-> font.cmap, outline |-> font.outline,
                   upm |-> font.upm, cap |-> r.after.cap, xh |-> r.after.xh,
                   width |-> r.after.width, lsb |-> r.after.lsb,
                   drawn |-> IF r.kind = "scaled" /\ font.outline = "CFF "
                             THEN Append(font.drawn, r.scale) ELSE font.drawn]] :
        r \in {ScaleTable[<<target, MetricsOf(font)>>]} } : TRUE

(***************************************************************************)
(* build(config)                                                            *)
(***************************************************************************)
VARIABLES
    scripts,         \* config.scripts
    pc,              \* position of build() in its body
    err,             \* the exception build() exits with, "" when none
    enabled,         \* the list of enabled scripts
    idx,             \* position of the running for loop in enabled (1-based)
    font_paths,      \* dict script name -> cached source font ("" = no entry)
    cache,           \* font files present in config.cache_dir
    attempt,         \* the attempt _download is at (1-based), 0 when no download runs
    slept,           \* the delays the running _download has slept, in order
    work_dir,        \* the mkdtemp directory: "none", "exists" or "removed"
    files,           \* work_dir/subset_<name>.otf -> the font file (per name)
    subset_entries,  \* list of (path, should_scale): the subsets that go on to the merge
    covered_cps,     \* running set of covered codepoints
    output,          \* file at output_path: "absent", "prior", "merged", "final"
    fetched,         \* history: the fonts ensure_font was called for, in order
    iterations,      \* history: what each iteration of the subsetting loop did
    merge_calls,     \* history: number of calls of merge_fonts
    target_cap_ratio,\* config.metrics.target_cap_ratio
    target_ratio,    \* the local target_ratio, a double
    scale_log        \* history: the calls of _scale_to_target

svars == <<target_cap_ratio, target_ratio, scale_log>>

bvars == <<scripts, pc, err, enabled, idx, font_paths, cache, attempt, slept, work_dir, files,
           subset_entries, covered_cps, output, fetched, iterations, merge_calls, svars>>

_TTF_GLYPH_LIMIT == 65535

\* the limit compared one too high
TooLarge_offbyone(glyph_count) == glyph_count > _TTF_GLYPH_LIMIT + 1

\* if glyph_count > _TTF_GLYPH_LIMIT: raise RuntimeError
TooLarge(glyph_count) == glyph_count > _TTF_GLYPH_LIMIT

NoFile == [exists |-> FALSE, cmap |-> {}, outline |-> "", upm |-> 0, cap |-> 0, xh |-> 0,
           width |-> 0, lsb |-> 0, drawn |-> <<>>]

\* the file subset_font saves: the subset's character map, the source font's outline
\* format, unitsPerEm, OS/2 heights and glyph metrics
SubsetFile(src, cmap) ==
    [exists |-> TRUE, cmap |-> cmap, drawn |-> <<>>] @@ FontMetrics(src)


\* glyph counts the Merger may report for the merged font
MergedGlyphCounts == {2, _TTF_GLYPH_LIMIT, _TTF_GLYPH_LIMIT + 1}

BStart ==
    /\ pc = "start"
    /\ err = ""
    /\ enabled = <<>>
    /\ idx = 1
    /\ font_paths = [n \in Names |-> ""]
    /\ cache = {}
    /\ attempt = 0
    /\ slept = <<>>
    /\ work_dir = "none"
    /\ files = [n \in Names |-> NoFile]
    /\ subset_entries = <<>>
    /\ covered_cps = {}
    /\ output \in {"absent", "prior"}
    /\ fetched = <<>>
    /\ iterations = <<>>
    /\ merge_calls = 0
    /\ target_ratio = FlZero
    /\ scale_log = <<>>

\* configurations with the default metrics and no scale opt-out
BInit ==
    /\ scripts \in Configs
    /\ target_cap_ratio = [n |-> 0, d |-> 1]
    /\ BStart

\* configurations that set target_cap_ratio and scale
BInitScale ==
    /\ scripts \in ScaleConfigs
    /\ target_cap_ratio \in TargetRatios
    /\ BStart

Fail(e) == pc' = "failed" /\ err' = e

\* the enabled flag ignored
EnabledOf_all(ss) == ss

\* enabled = [s for s in config.scripts if s.enabled]
EnabledOf(ss) == SelectSeq(ss, LAMBDA s : s.enabled)

\* if not enabled: raise RuntimeError
NoneEnabled(en) == en = <<>>

\* lines 73-81, up to font_paths = {}
BuildStart ==
    /\ pc = "start"
    /\ enabled' = EnabledOf(scripts)
    /\ idx' = 1
    /\ IF NoneEnabled(enabled') THEN Fail("NoScriptsEnabled") /\ UNCHANGED font_paths
       ELSE pc' = "download" /\ err' = err /\ font_paths' = [n \in Names |-> ""]
    /\ UNCHANGED <<scripts, cache, attempt, slept, work_dir, files, subset_entries,
                   covered_cps, output, fetched, iterations, merge_calls, svars>>

\* one iteration of the download loop, up to the cache lookup of ensure_font: a cached
\* font is returned at once, for a missing one _download starts with attempt 1
Fetch ==
    /\ pc = "download"
    /\ idx <= Len(enabled)
    /\ attempt = 0
    /\ LET script == enabled[idx]
       IN  /\ fetched' = Append(fetched, script.font)
           /\ IF script.font \in cache
              THEN /\ font_paths' = [font_paths EXCEPT ![script.name] = script.font]
                   /\ idx' = idx + 1
                   /\ UNCHANGED attempt
              ELSE /\ attempt' = 1
                   /\ UNCHANGED <<font_paths, idx>>
    /\ UNCHANGED <<scripts, pc, err, enabled, cache, slept, work_dir, files, subset_entries,
                   covered_cps, output, iterations, merge_calls, svars>>

_MAX_RETRIES == 3

_RETRY_DELAY == 2

\* the same delay after every failed attempt
Backoff_constant(k) == _RETRY_DELAY

\* time.sleep(_RETRY_DELAY * attempt)
Backoff(k) == _RETRY_DELAY * k

\* one pass of the loop of _download for the font of enabled[idx]: the request succeeds
\* (the file is written, ensure_font returns the path) or raises; a failure of the last
\* attempt raises RuntimeError, an earlier one sleeps and goes on to the next attempt
DownloadAttempt(ok) ==
    /\ pc = "download"
    /\ attempt >= 1
    /\ LET script == enabled[idx]
       IN  IF ok
           THEN /\ cache' = cache \cup {script.font}
                /\ font_paths' = [font_paths EXCEPT ![script.name] = script.font]
                /\ idx' = idx + 1
                /\ attempt' = 0
                /\ slept' = <<>>
                /\ UNCHANGED <<pc, err>>
           ELSE IF attempt = _MAX_RETRIES
           THEN /\ Fail("DownloadFailed")
                /\ UNCHANGED <<cache, font_paths, idx, attempt, slept>>
           ELSE /\ slept' = Append(slept, Backoff(attempt))
                /\ attempt' = attempt + 1
                /\ UNCHANGED <<pc, err, cache, font_paths, idx>>
    /\ UNCHANGED <<scripts, enabled, work_dir, files, subset_entries,
                   covered_cps, output, fetched, iterations, merge_calls, svars>>

\* covered_cps kept from one call of build() to the next, as module-level state would be
MakeWorkDir_keepcovered ==
    /\ pc = "download"
    /\ idx > Len(enabled)
    /\ work_dir' = "exists"
    /\ subset_entries' = <<>>
    /\ idx' = 1
    /\ pc' = "subset"
    /\ UNCHANGED <<scripts, err, enabled, font_paths, cache, attempt, slept, files, covered_cps,
                   output, fetched, iterations, merge_calls, svars>>

\* work_dir = Path(tempfile.mkdtemp(...)); subset_entries = []; covered_cps = set()
MakeWorkDir ==
    /\ pc = "download"
    /\ idx > Len(enabled)
    /\ work_dir' = "exists"
    /\ subset_entries' = <<>>
    /\ covered_cps' = {}
    /\ idx' = 1
    /\ pc' = "subset"
    /\ UNCHANGED <<scripts, err, enabled, font_paths, cache, attempt, slept, files,
                   output, fetched, iterations, merge_calls, svars>>

\* the filter against covered_cps left out
Dedup_nofilter(codepoints, covered) == codepoints

\* if covered_cps: codepoints = [cp for cp in codepoints if cp not in covered_cps]
Dedup(codepoints, covered) ==
    IF covered # {} THEN SelectSeq(codepoints, LAMBDA cp : cp \notin covered)
    ELSE codepoints

\* covered_cps.update(codepoints): the request recorded instead of the subset's cmap
UpdateCovered_requested(covered, subsetCmap, requested) == covered \cup requested

\* covered_cps.update(font.getBestCmap().keys()) with font = TTFont(out)
UpdateCovered(covered, subsetCmap, requested) == covered \cup subsetCmap

\* the body of the loop for one script, with the values its statements compute:
\* resolved = _resolve_codepoints(script), codepoints after dedup, sub = subset_font(...)
SubsetBody(script, src, resolved, codepoints, sub) ==
    LET out == script.name
        it == [name |-> script.name, src |-> src, resolved |-> resolved.cps,
               requested |-> codepoints, covered_before |-> covered_cps]
    IN  IF resolved.st = "ValueError"
        THEN /\ Fail("InvalidRange")
             /\ UNCHANGED <<idx, files, subset_entries, covered_cps, iterations>>
        ELSE IF codepoints = <<>>
        THEN \* continue
             /\ idx' = idx + 1
             /\ iterations' = Append(iterations, it @@ [outcome |-> "skipped_empty", cmap |-> {}])
             /\ UNCHANGED <<pc, err, files, subset_entries, covered_cps>>
        ELSE IF sub.st = "ValueError"
        THEN \* except ValueError: log.warning
             /\ idx' = idx + 1
             /\ iterations' = Append(iterations, it @@ [outcome |-> "skipped_noglyphs", cmap |-> {}])
             /\ UNCHANGED <<pc, err, files, subset_entries, covered_cps>>
        ELSE /\ files' = [files EXCEPT ![out] = SubsetFile(src, sub.cmap)]
             /\ covered_cps' = UpdateCovered(covered_cps, sub.cmap, SeqToSet(codepoints))
             /\ subset_entries' = Append(subset_entries, [path |-> out, should_scale |-> script.scale])
             /\ idx' = idx + 1
             /\ iterations' = Append(iterations, it @@ [outcome |-> "subset", cmap |-> sub.cmap])
             /\ UNCHANGED <<pc, err>>

\* one iteration of the subsetting loop, lines 91-109
SubsetStep ==
    /\ pc = "subset"
    /\ idx <= Len(enabled)
    /\ \E script \in {enabled[idx]} :
       \E src \in {font_paths[script.name]} :
       \E resolved \in {_resolve_codepoints(script)} :
       \E codepoints \in {Dedup(resolved.cps, covered_cps)} :
       \E sub \in {subset_font(FontCmap(src), codepoints)} :
          SubsetBody(script, src, resolved, codepoints, sub)
    /\ UNCHANGED <<scripts, enabled, font_paths, cache, attempt, slept, work_dir, output, fetched, merge_calls, svars>>

\* the check after the loop left out
NothingToMerge_never(entries) == FALSE

\* if not subset_entries: raise RuntimeError
NothingToMerge(entries) == entries = <<>>

\* target_ratio = config.metrics.target_cap_ratio;
\* if target_ratio <= 0: target_ratio = _get_cap_ratio(subset_paths[0])
TargetRatio(configured, first) ==
    IF configured.n <= 0 THEN _get_cap_ratio(first) ELSE FlOfConfig(configured)

\* lines 111-121: the check after the loop, then the target ratio; the scaling loop
\* runs only for a target_ratio > 0
CheckAndScale ==
    /\ pc = "subset"
    /\ idx > Len(enabled)
    /\ IF NothingToMerge(subset_entries)
       THEN Fail("AllSubsetsEmpty") /\ UNCHANGED <<idx, target_ratio>>
       ELSE IF subset_entries = <<>> /\ target_cap_ratio.n <= 0
       THEN \* subset_paths[0] of an empty list
            Fail("IndexError") /\ UNCHANGED <<idx, target_ratio>>
       ELSE /\ target_ratio' = TargetRatio(target_cap_ratio, files[subset_entries[1].path])
            /\ pc' = IF FlLess(FlZero, target_ratio') /\ subset_entries # <<>>
                     THEN "scale" ELSE "merge"
            /\ idx' = 1
            /\ err' = err
    /\ UNCHANGED <<scripts, enabled, font_paths, cache, attempt, slept, work_dir, files, subset_entries,
                   covered_cps, output, fetched, iterations, merge_calls,
                   target_cap_ratio, scale_log>>

\* one iteration of the scaling loop, lines 122-126
ScaleStep ==
    /\ pc = "scale"
    /\ idx <= Len(subset_entries)
    /\ \E sp \in {subset_entries[idx].path} :
       \E call \in {_scale_to_target(files[sp], target_ratio)} :
          IF subset_entries[idx].should_scale
          THEN /\ files' = [files EXCEPT ![sp] = call.font]
               /\ scale_log' = Append(scale_log,
                     [path |-> sp, target |-> target_ratio, before |-> files[sp],
                      after |-> call.font, scale |-> call.scale, saved |-> call.saved])
          ELSE UNCHANGED <<files, scale_log>>
    /\ idx' = idx + 1
    /\ pc' = IF idx = Len(subset_entries) THEN "merge" ELSE "scale"
    /\ UNCHANGED <<scripts, err, enabled, font_paths, cache, attempt, slept, work_dir, subset_entries,
                   covered_cps, output, fetched, iterations, merge_calls,
                   target_cap_ratio, target_ratio>>

\* lines 128-133: merge_fonts(subset_paths, output_path, ...); the merger reports
\* glyph_count glyphs for N >= 2 inputs, a single input is copied
MergeStage(glyph_count) ==
    /\ pc = "merge"
    /\ merge_calls' = merge_calls + 1
    /\ IF subset_entries = <<>>
       THEN Fail("NoFontsToMerge") /\ UNCHANGED output
       ELSE IF Len(subset_entries) >= 2 /\ TooLarge(glyph_count)
       THEN Fail("MergedTooLarge") /\ UNCHANGED output
       ELSE pc' = "post" /\ err' = err /\ output' = "merged"
    /\ UNCHANGED <<scripts, enabled, idx, font_paths, cache, attempt, slept, work_dir, files, subset_entries,
                   covered_cps, fetched, iterations, svars>>

\* lines 135-143: prune, rename, fix metrics, subroutinize: each rewrites output_path
\* in place; a stage that raises ends build() with that exception
PostStages(ok) ==
    /\ pc = "post"
    /\ IF ok THEN pc' = "cleanup" /\ err' = err /\ output' = "final"
       ELSE Fail("StageFailed") /\ UNCHANGED output
    /\ UNCHANGED <<scripts, enabled, idx, font_paths, cache, attempt, slept, work_dir, files, subset_entries,
                   covered_cps, fetched, iterations, merge_calls, svars>>

\* lines 145-155: shutil.rmtree(work_dir, ignore_errors=True); return output_path
Cleanup ==
    /\ pc = "cleanup"
    /\ work_dir' = "removed"
    /\ files' = [n \in Names |-> NoFile]
    /\ pc' = "done"
    /\ UNCHANGED <<scripts, err, enabled, idx, font_paths, cache, attempt, slept, subset_entries,
                   covered_cps, output, fetched, iterations, merge_calls, svars>>

(***************************************************************************)
(* merge_fonts(font_paths, output_path, drop_tables)                        *)
(*                                                                          *)
(* A font file is a record: outline table ("glyf", "CFF " or "CFF2"),      *)
(* whether a "CFF " font is CID-keyed (top dict has ROS), unitsPerEm, the   *)
(* optional layout tables present, and the length of the glyph order.       *)
(***************************************************************************)
VARIABLES
    m_inputs,       \* the fonts at font_paths, in order
    m_drop,         \* drop_tables
    m_pc,           \* position of merge_fonts in its body
    m_err,          \* the exception merge_fonts exits with, "" when none
    m_i,            \* position of the processing loop in font_paths (1-based)
    use_cff,        \* the batch format chosen
    target_upm,     \* unitsPerEm of the first input
    processed,      \* the processed fonts, as the files are on disk
    handed,         \* history: the fonts the Merger was given
    m_output        \* the file at output_path

mvars == <<m_inputs, m_drop, m_pc, m_err, m_i, use_cff, target_upm, processed, handed, m_output>>

MaxFonts == 4          \* longest font_paths list

LayoutTags == {"GSUB", "GPOS", "GDEF"}

\* a character map is the sequence of its subtables [format, map]; a map takes
\* codepoints to glyphs, and a glyph is named after the font it comes from
Subtable(format, map) == [format |-> format, map |-> map]

FontFiles ==
    { [outline |-> "glyf", cid |-> FALSE, upm |-> 2048, tables |-> {}, glyphs |-> 1,
       cmap |-> <<Subtable(4, (65 :> "A.1"))>>],
      [outline |-> "glyf", cid |-> FALSE, upm |-> 1000, tables |-> {"GSUB"}, glyphs |-> 32767,
       cmap |-> <<Subtable(4, (66 :> "B.2"))>>],
      [outline |-> "CFF ", cid |-> FALSE, upm |-> 1000, tables |-> {"GSUB", "GPOS"}, glyphs |-> 32768,
       cmap |-> <<Subtable(12, (65 :> "A.3" @@ 70000 :> "u.3")), Subtable(4, (65 :> "A.3"))>>],
      [outline |-> "CFF ", cid |-> TRUE, upm |-> 1000, tables |-> {}, glyphs |-> 1,
       cmap |-> <<Subtable(12, (70001 :> "v.4"))>>],
      [outline |-> "CFF2", cid |-> FALSE, upm |-> 2048, tables |-> {"GSUB"}, glyphs |-> 1,
       cmap |-> <<Subtable(4, (67 :> "C.5"))>>] }

DropLists == {<<>>, <<"GPOS">>, <<"GPOS", "GSUB">>}

FontLists == UNION {[1..n -> FontFiles] : n \in 0..MaxFonts}

NoFont == [outline |-> "", cid |-> FALSE, upm |-> 0, tables |-> {}, glyphs |-> 0, cmap |-> <<>>]
Absent == [kind |-> "absent", font |-> NoFont]
Prior == [kind |-> "prior", font |-> NoFont]
Written(f) == [kind |-> "written", font |-> f]

\* "CFF " in font or "CFF2" in font
_is_cff(f) == f.outline \in {"CFF ", "CFF2"}

\* font.getBestCmap() or {}: the full-repertoire (format 12) subtable when there is one
getBestCmap(f) ==
    IF \E k \in 1..Len(f.cmap) : f.cmap[k].format = 12
    THEN f.cmap[CHOOSE k \in 1..Len(f.cmap) : f.cmap[k].format = 12].map
    ELSE IF f.cmap # <<>> THEN f.cmap[1].map ELSE <<>>

\* the subtables fontTools builds for a mapping: format 12 when a codepoint is above
\* U+FFFF, and always format 4 with the codepoints up to U+FFFF
CmapTables(map) ==
    LET bmp == [cp \in {c \in DOMAIN map : c <= 65535} |-> map[cp]]
    IN  IF DOMAIN bmp # DOMAIN map THEN <<Subtable(12, map), Subtable(4, bmp)>>
        ELSE <<Subtable(4, bmp)>>

\* FontBuilder rebuild shared by the three converters: same unitsPerEm and glyph
\* order, cmap set up from the best cmap, GSUB/GPOS/GDEF copied over when present
Rebuilt(f, outline) ==
    [outline |-> outline, cid |-> FALSE, upm |-> f.upm,
     tables |-> f.tables \cap LayoutTags, glyphs |-> f.glyphs,
     cmap |-> CmapTables(getBestCmap(f))]

_ensure_cff(f) == IF _is_cff(f) THEN f ELSE Rebuilt(f, "CFF ")

_ensure_quadratic(f) == IF ~_is_cff(f) THEN f ELSE Rebuilt(f, "glyf")

_decid_cff(f) ==
    IF f.outline # "CFF " THEN f
    ELSE IF ~f.cid THEN f
    ELSE Rebuilt(f, "CFF ")

_strip_tables(f, table_tags) == [f EXCEPT !.tables = @ \ SeqToSet(table_tags)]

\* the scaling left out
_normalize_upm_keep(f, target) == f

\* scale_upem(font, target_upm) unless current_upm == target_upm
_normalize_upm(f, target) == IF f.upm = target THEN f ELSE [f EXCEPT !.upm = target]

_ensure_gsub(f) == IF "GSUB" \notin f.tables THEN [f EXCEPT !.tables = @ \cup {"GSUB"}] ELSE f

\* cff_count = sum(1 for p in font_paths if _is_cff(p))
CffCount(fonts) == Cardinality({k \in 1..Len(fonts) : _is_cff(fonts[k])})

\* use_cff = cff_count >= len(font_paths) // 2: a tie converts to CFF
UseCff_half(cff_count, n) == cff_count >= n \div 2

\* use_cff = cff_count > len(font_paths) // 2
UseCff(cff_count, n) == cff_count > n \div 2

\* the body of the processing loop, lines 316-322
ProcessOne(p, cff, upm, drop_tables) ==
    LET decid == _decid_cff(p)
        conv == IF cff THEN _ensure_cff(decid) ELSE _ensure_quadratic(decid)
        norm == _normalize_upm(conv, upm)
        gsub == _ensure_gsub(norm)
    IN  IF drop_tables # <<>> THEN _strip_tables(gsub, drop_tables) ELSE gsub

RECURSIVE SumGlyphs(_)
SumGlyphs(fonts) == IF fonts = <<>> THEN 0 ELSE Head(fonts).glyphs + SumGlyphs(Tail(fonts))

\* Merger().merge(...): glyph orders are concatenated, the first font is the baseline,
\* a codepoint maps to the glyph of the first font that maps it
Merged(fonts) ==
    LET has(cp) == {k \in 1..Len(fonts) : cp \in DOMAIN getBestCmap(fonts[k])}
        first(cp) == CHOOSE k \in has(cp) : \A j \in has(cp) : k <= j
        cps == UNION {DOMAIN getBestCmap(fonts[k]) : k \in 1..Len(fonts)}
    IN  [outline |-> fonts[1].outline, cid |-> FALSE, upm |-> fonts[1].upm,
         tables |-> UNION {fonts[k].tables : k \in 1..Len(fonts)}, glyphs |-> SumGlyphs(fonts),
         cmap |-> CmapTables([cp \in cps |-> getBestCmap(fonts[first(cp)])[cp]])]

\* the rebuild left out
_rebuild_cmap_skip(font) == font

\* all_mappings.update(table.cmap) for each subtable in turn; cmap.tables = [fmt12]
_rebuild_cmap(font) ==
    LET has(cp) == {k \in 1..Len(font.cmap) : cp \in DOMAIN font.cmap[k].map}
        last(cp) == CHOOSE k \in has(cp) : \A j \in has(cp) : j <= k
        cps == UNION {DOMAIN font.cmap[k].map : k \in 1..Len(font.cmap)}
    IN  [font EXCEPT !.cmap = <<Subtable(12, [cp \in cps |-> font.cmap[last(cp)].map[cp]])>>]

MInit ==
    /\ m_inputs \in FontLists
    /\ m_drop \in DropLists
    /\ m_pc = "start"
    /\ m_err = ""
    /\ m_i = 1
    /\ use_cff = FALSE
    /\ target_upm = 0
    /\ processed = <<>>
    /\ handed = <<>>
    /\ m_output \in {Absent, Prior}

MFail(e) == m_pc' = "failed" /\ m_err' = e

\* merge_fonts without the single-input shortcut of lines 298-301
MergeStart_noshortcut ==
    /\ m_pc = "start"
    /\ IF m_inputs = <<>>
       THEN MFail("NoFontsToMerge") /\ UNCHANGED <<use_cff, target_upm, m_output>>
       ELSE /\ use_cff' = UseCff(CffCount(m_inputs), Len(m_inputs))
            /\ target_upm' = m_inputs[1].upm
            /\ m_pc' = "process"
            /\ UNCHANGED <<m_err, m_output>>
    /\ UNCHANGED <<m_inputs, m_drop, m_i, processed, handed>>

\* lines 295-312
MergeStart ==
    /\ m_pc = "start"
    /\ IF m_inputs = <<>>
       THEN MFail("NoFontsToMerge") /\ UNCHANGED <<use_cff, target_upm, m_output>>
       ELSE IF Len(m_inputs) = 1
       THEN \* shutil.copy2(font_paths[0], output_path)
            /\ m_output' = Written(m_inputs[1])
            /\ m_pc' = "done"
            /\ UNCHANGED <<m_err, use_cff, target_upm>>
       ELSE /\ use_cff' = UseCff(CffCount(m_inputs), Len(m_inputs))
            /\ target_upm' = m_inputs[1].upm
            /\ m_pc' = "process"
            /\ UNCHANGED <<m_err, m_output>>
    /\ UNCHANGED <<m_inputs, m_drop, m_i, processed, handed>>

\* one iteration of the processing loop, lines 315-322
ProcessFont ==
    /\ m_pc = "process"
    /\ m_i <= Len(m_inputs)
    /\ processed' = Append(processed, ProcessOne(m_inputs[m_i], use_cff, target_upm, m_drop))
    /\ m_i' = m_i + 1
    /\ UNCHANGED <<m_inputs, m_drop, m_pc, m_err, use_cff, target_upm, handed, m_output>>

\* lines 326-343: merge, glyph count check, cmap rebuild, save
RunMerger ==
    /\ m_pc = "process"
    /\ m_i > Len(m_inputs)
    /\ handed' = processed
    /\ \E merged \in {Merged(processed)} :
          IF TooLarge(merged.glyphs)
          THEN MFail("MergedTooLarge") /\ UNCHANGED m_output
          ELSE m_output' = Written(_rebuild_cmap(merged)) /\ m_pc' = "done" /\ UNCHANGED m_err
    /\ UNCHANGED <<m_inputs, m_drop, m_i, use_cff, target_upm, processed>>

MIdle ==
    /\ m_inputs = <<>>
    /\ m_drop = <<>>
    /\ m_pc = "idle"
    /\ m_err = ""
    /\ m_i = 1
    /\ use_cff = FALSE
    /\ target_upm = 0
    /\ processed = <<>>
    /\ handed = <<>>
    /\ m_output = Absent

(***************************************************************************)
(* build_all(config)                                                        *)
(*                                                                          *)
(* Objects live in a heap: the BuildConfig passed in is object 0 and its    *)
(* ScriptEntry objects are 1..n; a copy made for a weight gets fresh ids.   *)
(***************************************************************************)
VARIABLES
    heap,           \* object id -> the object's fields
    a_pc,           \* position of build_all in its body
    a_i,            \* position of the weight loop in config.weights (1-based)
    cfg,            \* the object build() was last called with
    outputs,        \* the list build_all returns
    given,          \* history: the configuration as it was when build_all was called
    built           \* history: the weight and final covered_cps of each build() that returned

avars == <<heap, a_pc, a_i, cfg, outputs, given, built>>

\* the value of the BuildConfig object ref, its ScriptEntry objects included
ConfigAt(h, ref) == [h[ref] EXCEPT !.scripts = [k \in DOMAIN @ |-> h[@[k]]]]

\* copy.copy in place of copy.deepcopy: the copy shares the ScriptEntry objects
deepcopy_shallow(h, ref) ==
    [ref |-> Cardinality(DOMAIN h), heap |-> h @@ (Cardinality(DOMAIN h) :> h[ref])]

\* copy.deepcopy(config): a new BuildConfig object with new ScriptEntry objects
deepcopy(h, ref) ==
    LET base == Cardinality(DOMAIN h)
        n == Len(h[ref].scripts)
    IN  [ref |-> base,
         heap |-> h @@ (base :> [h[ref] EXCEPT !.scripts = [k \in 1..n |-> base + k]])
                    @@ [id \in (base + 1)..(base + n) |-> h[h[ref].scripts[id - base]]]]

\* str.replace(old, new): every occurrence of old, left to right, not overlapping
RECURSIVE Replace(_, _, _)
Replace(s, old, new) ==
    IF Len(s) < Len(old) THEN s
    ELSE IF SubSeq(s, 1, Len(old)) = old
    THEN new \o Replace(SubSeq(s, Len(old) + 1, Len(s)), old, new)
    ELSE SubSeq(s, 1, 1) \o Replace(SubSeq(s, 2, Len(s)), old, new)

AIdle ==
    /\ heap = <<>>
    /\ a_pc = "idle"
    /\ a_i = 1
    /\ cfg = 0
    /\ outputs = <<>>
    /\ given = <<>>
    /\ built = <<>>

\* build(c) is entered: its locals are unbound until its statements assign them, the
\* file at c.output may exist or not, and the histories of the calls it makes start anew
CallBuild(c) ==
    /\ scripts' = c.scripts
    /\ pc' = "start"
    /\ err' = ""
    /\ output' \in {"absent", "prior"}
    /\ fetched' = <<>>
    /\ iterations' = <<>>
    /\ merge_calls' = 0
    /\ scale_log' = <<>>
    /\ UNCHANGED <<enabled, idx, font_paths, cache, attempt, slept, work_dir, files,
                   subset_entries, covered_cps, target_cap_ratio, target_ratio>>

\* lines 323-324: if not config.weights: return [build(config)]
BuildUnweighted ==
    /\ a_pc = "start"
    /\ heap[0].weights = <<>>
    /\ cfg' = 0
    /\ CallBuild(ConfigAt(heap, 0))
    /\ a_pc' = "building"
    /\ UNCHANGED <<heap, a_i, outputs, given, built>>

\* the names swapped for every script, whatever weights it lists
Swaps_always(script, weight) == TRUE

\* if not script.weights or weight in script.weights
Swaps(script, weight) == script.weights = <<>> \/ weight \in SeqToSet(script.weights)

\* lines 327-338, up to the call of build(cfg): the copy of the last weight is released,
\* a new one is made and given the weight's style, output name and font names
WeightStart ==
    /\ a_pc = "start"
    /\ a_i <= Len(heap[0].weights)
    /\ \E weight \in {heap[0].weights[a_i]} :
       \E copy \in {deepcopy([id \in 0..Len(heap[0].scripts) |-> heap[id]], 0)} :
       \E swapped \in {{r \in SeqToSet(copy.heap[copy.ref].scripts) :
                           Swaps(copy.heap[r], weight)}} :
          /\ cfg' = copy.ref
          /\ heap' = [id \in DOMAIN copy.heap |->
                        IF id = copy.ref
                        THEN [copy.heap[id] EXCEPT !.style = weight,
                                                   !.output = heap[0].name \o "-" \o weight \o ".otf"]
                        ELSE IF id \in swapped
                        THEN [copy.heap[id] EXCEPT !.font = Replace(@, "Regular", weight),
                                                   !.url = Replace(@, "Regular", weight)]
                        ELSE copy.heap[id]]
          /\ CallBuild(ConfigAt(heap', cfg'))
    /\ a_pc' = "building"
    /\ UNCHANGED <<a_i, outputs, given, built>>

\* build() has returned or raised: outputs.append(...) and the next weight, the return
\* of build_all after the last one, or the exception passed on to the caller
BuildReturn ==
    /\ a_pc = "building"
    /\ pc \in {"done", "failed"}
    /\ IF pc = "failed"
       THEN a_pc' = "raised" /\ UNCHANGED <<a_i, outputs, built>>
       ELSE /\ outputs' = Append(outputs, heap[cfg].output)
            /\ built' = Append(built, [style |-> heap[cfg].style, covered |-> covered_cps])
            /\ a_i' = a_i + 1
            /\ a_pc' = IF a_i < Len(heap[0].weights) THEN "start" ELSE "returned"
    /\ UNCHANGED <<heap, cfg, given, bvars>>

(***************************************************************************)
(* extract_from_pot(source)                                                 *)
(*                                                                          *)
(* A line of the .pot text is a sequence of characters. In the texts of     *)
(* the model the capital letters stand for characters outside ASCII.        *)
(***************************************************************************)
MaxLines == 3          \* longest .pot text, in lines

\* ord(ch) of the characters the texts are written with: E, I, N, O, U stand for
\* U+00C9, U+00CD, U+00D1, U+00D6, U+00DC, the others are ASCII
ord(ch) ==
    CASE ch = "E" -> 201
      [] ch = "I" -> 205
      [] ch = "N" -> 209
      [] ch = "O" -> 214
      [] ch = "U" -> 220
      [] ch = "\n" -> 10
      [] ch = "\t" -> 9
      [] ch = " " -> 32
      [] ch = "\"" -> 34
      [] ch = "\\" -> 92
      [] ch = "a" -> 97
      [] ch = "n" -> 110

\* _extract_from_quoted(s, out): out after the call
_extract_from_quoted(s, out) ==
    LET t == Strip(s)
    IN  IF ~StartsWith(t, <<"\"">>) \/ t[Len(t)] # "\"" THEN out
        ELSE LET unescaped == Replace(Replace(Replace(SubSeq(t, 2, Len(t) - 1),
                                  <<"\\", "\"">>, <<"\"">>), <<"\\", "n">>, <<"\n">>),
                                  <<"\\", "t">>, <<"\t">>)
             IN  out \cup {ord(unescaped[k]) : k \in 1..Len(unescaped)}

\* lines 18-36 for text.splitlines() = lines
extract_from_pot(lines) ==
    LET RECURSIVE loop(_, _, _)
        loop(k, in_msgid, codepoints) ==
            IF k > Len(lines) THEN codepoints
            ELSE IF StartsWith(lines[k], <<"m", "s", "g", "i", "d", " ">>)
            THEN loop(k + 1, TRUE,
                      _extract_from_quoted(SubSeq(lines[k], 7, Len(lines[k])), codepoints))
            ELSE IF StartsWith(lines[k], <<"m", "s", "g", "s", "t", "r", " ">>)
            THEN loop(k + 1, FALSE, codepoints)
            ELSE IF in_msgid /\ StartsWith(lines[k], <<"\"">>)
            THEN loop(k + 1, in_msgid, _extract_from_quoted(lines[k], codepoints))
            ELSE loop(k + 1, in_msgid, codepoints)
    IN  {cp \in loop(1, FALSE, {}) : cp > 127}

ExtractCall ==
    /\ e_result.st = "none"
    /\ e_result' = [st |-> "returned", cps |-> extract_from_pot(e_lines)]
    /\ UNCHANGED <<p_items, p_result, r_charset, r_result, e_lines>>

BIdle ==
    /\ scripts = <<>>
    /\ pc = "idle"
    /\ err = ""
    /\ enabled = <<>>
    /\ idx = 1
    /\ font_paths = [n \in Names |-> ""]
    /\ cache = {}
    /\ attempt = 0
    /\ slept = <<>>
    /\ work_dir = "none"
    /\ files = [n \in Names |-> NoFile]
    /\ subset_entries = <<>>
    /\ covered_cps = {}
    /\ output = "absent"
    /\ fetched = <<>>
    /\ iterations = <<>>
    /\ merge_calls = 0
    /\ target_cap_ratio = [n |-> 0, d |-> 1]
    /\ target_ratio = FlZero
    /\ scale_log = <<>>

PIdle ==
    /\ p_items = <<>>
    /\ p_result = NotCalled
    /\ r_charset = ""
    /\ r_result = NotCalled
    /\ e_lines = <<>>
    /\ e_result = [st |-> "none", cps |-> {}]

vars == <<pvars, bvars, mvars, avars>>

ParseInit == PInit /\ BIdle /\ MIdle /\ AIdle
ParseNext == ParseCall /\ UNCHANGED <<bvars, mvars, avars>>
SpecParse == ParseInit /\ [][ParseNext]_vars

\* scripts with or without a charset file, and ranges written plainly: single
\* codepoints, ranges and strings that are not hexadecimal
ResolveInit ==
    /\ p_items \in UNION {[1..n -> {it \in Items : /\ it.style = "plain"
                                                    /\ it.kind \in {"single", "range", "nonhex"}}] :
                              n \in 0..MaxRanges}
    /\ p_result = NotCalled
    /\ r_charset \in {"", "cs1", "cs2"}
    /\ r_result = NotCalled
    /\ e_lines = <<>>
    /\ e_result = [st |-> "none", cps |-> {}]
    /\ BIdle /\ MIdle /\ AIdle
ResolveNext == ResolveCall /\ UNCHANGED <<bvars, mvars, avars>>
SpecResolve == ResolveInit /\ [][ResolveNext]_vars

\* .pot texts of up to MaxLines lines: singular and plural entries, translations on the
\* keyword line and on continuation lines, comments
ExtractInit ==
    /\ e_lines \in UNION {[1..n ->
            { <<"m", "s", "g", "i", "d", " ", "\"", "a", "E", "\"">>,
              <<"m", "s", "g", "i", "d", " ", "\"", "\"">>,
              <<"m", "s", "g", "i", "d", "_", "p", "l", "u", "r", "a", "l", " ", "\"", "N", "\"">>,
              <<"m", "s", "g", "s", "t", "r", " ", "\"", "U", "\"">>,
              <<"m", "s", "g", "s", "t", "r", "[", "0", "]", " ", "\"", "O", "\"">>,
              <<"\"", "I", "\\", "n", "\"">>,
              <<"#", " ", "E">> }] : n \in 0..MaxLines}
    /\ e_result = [st |-> "none", cps |-> {}]
    /\ p_items = <<>>
    /\ p_result = NotCalled
    /\ r_charset = ""
    /\ r_result = NotCalled
    /\ BIdle /\ MIdle /\ AIdle
ExtractNext == ExtractCall /\ UNCHANGED <<bvars, mvars, avars>>
SpecExtract == ExtractInit /\ [][ExtractNext]_vars

BuildInit == BInit /\ PIdle /\ MIdle /\ AIdle
BuildNext ==
    \/ BuildStart /\ UNCHANGED <<pvars, mvars, avars>>
    \/ Fetch /\ UNCHANGED <<pvars, mvars, avars>>
    \/ (\E ok \in BOOLEAN : DownloadAttempt(ok)) /\ UNCHANGED <<pvars, mvars, avars>>
    \/ MakeWorkDir /\ UNCHANGED <<pvars, mvars, avars>>
    \/ SubsetStep /\ UNCHANGED <<pvars, mvars, avars>>
    \/ CheckAndScale /\ UNCHANGED <<pvars, mvars, avars>>
    \/ ScaleStep /\ UNCHANGED <<pvars, mvars, avars>>
    \/ (\E glyph_count \in MergedGlyphCounts : MergeStage(glyph_count)) /\ UNCHANGED <<pvars, mvars, avars>>
    \/ (\E ok \in BOOLEAN : PostStages(ok)) /\ UNCHANGED <<pvars, mvars, avars>>
    \/ Cleanup /\ UNCHANGED <<pvars, mvars, avars>>
SpecBuild == BuildInit /\ [][BuildNext]_vars

ScaleInit == BInitScale /\ PIdle /\ MIdle /\ AIdle
SpecScale == ScaleInit /\ [][BuildNext]_vars

MergeInit == MInit /\ PIdle /\ BIdle /\ AIdle
MergeNext ==
    \/ MergeStart /\ UNCHANGED <<pvars, bvars, avars>>
    \/ ProcessFont /\ UNCHANGED <<pvars, bvars, avars>>
    \/ RunMerger /\ UNCHANGED <<pvars, bvars, avars>>
SpecMerge == MergeInit /\ [][MergeNext]_vars

\* build_all with build() running inside it, under the default metrics. The scripts of
\* the configuration: the font of a script names the weight "Regular" or does not, and a
\* script may list the weights it is available in; config.weights is empty or not.
AllInit ==
    /\ \E ss \in UNION {[1..n ->
                { DisabledScript @@ [url |-> "Regular/Fa", weights |-> <<>>] } \cup
                { [name |-> e.name, enabled |-> TRUE, font |-> e.font, url |-> "Regular/" \o e.font,
                   unicode_ranges |-> <<R_1_3>>, charset_file |-> "", scale |-> TRUE,
                   weights |-> w] :
                     e \in { [name |-> "a", font |-> "Fa-Regular"],
                             [name |-> "b", font |-> "Fb-Regular"],
                             [name |-> "b", font |-> "Fa"] },
                     w \in {<<>>, <<"Bold">>} }] : n \in 1..MaxScripts} :
       \E ws \in {<<>>, <<"Regular">>, <<"Regular", "Bold">>, <<"Bold", "Light">>} :
          heap = (0 :> [name |-> "Op", style |-> "Regular", output |-> "Op-Regular.otf",
                        weights |-> ws, scripts |-> [k \in 1..Len(ss) |-> k]])
                 @@ [id \in 1..Len(ss) |-> ss[id]]
    /\ a_pc = "start"
    /\ a_i = 1
    /\ cfg = 0
    /\ outputs = <<>>
    /\ given = ConfigAt(heap, 0)
    /\ built = <<>>
    /\ BIdle /\ PIdle /\ MIdle
AllNext ==
    \/ BuildUnweighted /\ UNCHANGED <<pvars, mvars>>
    \/ WeightStart /\ UNCHANGED <<pvars, mvars>>
    \/ BuildReturn /\ UNCHANGED <<pvars, mvars>>
    \/ BuildNext
SpecAll == AllInit /\ [][AllNext]_vars
(***************************************************************************)
(* Properties                                                               *)
(***************************************************************************)
Terminal == pc \in {"done", "failed"}
Unwritten == output \in {"absent", "prior"}
Outcomes == {iterations[k].outcome : k \in 1..Len(iterations)}
Skipped == {"skipped_empty", "skipped_noglyphs"}

SurvivorCmap(k) == files[subset_entries[k].path].cmap

DistinctNames == \A i, j \in 1..Len(enabled) : i # j => enabled[i].name # enabled[j].name

\* The files listed in subset_entries are pairwise disjoint too when the enabled scripts
\* have distinct names; two enabled scripts of one name write the same subset file.
SurvivingFilesDisjoint ==
    DistinctNames =>
        \A i, j \in 1..Len(subset_entries) :
            i < j => SurvivorCmap(i) \cap SurvivorCmap(j) = {}

\* C2: after each iteration of the subsetting loop, covered_cps is the union of the actual
\* character maps of the subsets produced so far (not of the requests), and the codepoints
\* offered to a script are its resolved codepoints minus those actual character maps, so
\* a codepoint requested earlier but absent from that script's font is still offered.
C2_CoveredIsActualCmaps ==
    /\ covered_cps = UNION {iterations[k].cmap : k \in 1..Len(iterations)}
    /\ \A k \in 1..Len(iterations) :
          SeqToSet(iterations[k].requested) =
              SeqToSet(iterations[k].resolved) \ UNION {iterations[j].cmap : j \in 1..(k - 1)}

\* C2 witness: a codepoint requested by an earlier script, absent from its font, is covered
\* by a later script, and covered_cps differs from the union of the requests.
C2_Witness ==
    /\ pc = "subset"
    /\ Len(iterations) = 2
    /\ \E cp \in SeqToSet(iterations[1].requested) :
          cp \notin iterations[1].cmap /\ cp \in iterations[2].cmap
    /\ covered_cps # UNION {SeqToSet(iterations[k].requested) : k \in 1..Len(iterations)}

\* C3: parse_unicode_ranges raises ValueError whenever one of its range strings is
\* reversed, degenerate (no start, no end, no U+ prefix) or has a non-hex component.
C3_MalformedRaises ==
    (p_result.st # "none" /\ \E k \in 1..Len(p_items) : p_items[k].kind \notin WellFormedKinds)
        => p_result.st = "ValueError"

\* What does hold: every malformed shape but the reversed range raises.
DegenerateAndNonHexRaise ==
    (p_result.st # "none"
        /\ \E k \in 1..Len(p_items) : p_items[k].kind \notin (WellFormedKinds \cup {"reversed"}))
        => p_result.st = "ValueError"

\* C4: for well-formed range strings, parse_unicode_ranges returns exactly the union of
\* the inclusive intervals, as a strictly increasing list.
C4_WellFormedUnion ==
    (p_result.st # "none" /\ \A k \in 1..Len(p_items) : p_items[k].kind \in WellFormedKinds)
        => /\ p_result.st = "returned"
           /\ SeqToSet(p_result.cps) = UNION {p_items[k].a..p_items[k].b : k \in 1..Len(p_items)}
           /\ \A i, j \in 1..Len(p_result.cps) : i < j => p_result.cps[i] < p_result.cps[j]

\* C4 witness: two overlapping ranges, written in different styles, have been parsed.
C4_Witness ==
    /\ p_result.st = "returned"
    /\ Len(p_items) = 2
    /\ p_items[1].kind = "range" /\ p_items[2].kind = "range"
    /\ p_items[1].style # p_items[2].style
    /\ p_items[1].a < p_items[2].a /\ p_items[2].a <= p_items[1].b /\ p_items[1].b < p_items[2].b
    /\ Len(p_result.cps) = p_items[2].b - p_items[1].a + 1

\* C5: with N >= 2 inputs, merge_fonts converts every font to CFF exactly when the CFF
\* inputs are a strict majority (2 * count > N), and every font to quadratic otherwise.
C5_MajorityDecidesFormat ==
    LET majority == 2 * CffCount(m_inputs) > Len(m_inputs)
    IN  /\ m_pc \in {"process", "done", "failed"} /\ Len(m_inputs) >= 2 => (use_cff <=> majority)
        /\ \A k \in 1..Len(processed) : _is_cff(processed[k]) <=> majority

\* C5 witness: four inputs, two of them CFF, all handed to the merger as quadratic.
C5_Witness ==
    /\ Len(m_inputs) = 4
    /\ CffCount(m_inputs) = 2
    /\ Len(handed) = 4
    /\ \A k \in 1..4 : handed[k].outline = "glyf"

\* C6: when the combined glyph count of N >= 2 inputs exceeds 65535, merge_fonts exits
\* with the too-large error and the file at output_path is never written.
C6_TooLargeWritesNothing ==
    (Len(m_inputs) >= 2 /\ SumGlyphs(m_inputs) > 65535)
        => /\ m_output.kind \in {"absent", "prior"}
           /\ m_pc \in {"done", "failed"} => (m_pc = "failed" /\ m_err = "MergedTooLarge")

\* C6 witness: 65536 glyphs, the error raised, the prior output file still in place.
C6_Witness ==
    /\ m_pc = "failed"
    /\ m_err = "MergedTooLarge"
    /\ SumGlyphs(m_inputs) = 65536
    /\ m_output = Prior

\* C7: every font handed to the merger carries a GSUB table, whatever the drop list.
C7_HandedFontsCarryGsub ==
    \A k \in 1..Len(handed) : "GSUB" \in handed[k].tables

\* What does hold: a font is handed over without GSUB only when the drop list names GSUB.
GsubMissingOnlyWhenDropped ==
    (\E k \in 1..Len(handed) : "GSUB" \notin handed[k].tables) => "GSUB" \in SeqToSet(m_drop)

\* C8: build() fails when no script is enabled (before any download) and when every
\* enabled script is skipped; in both cases merge_fonts is never called and the output
\* file is not written.
C8_NothingToBuildIsFatal ==
    /\ (pc \notin {"idle", "start"} /\ EnabledOf(scripts) = <<>>)
          => /\ pc = "failed" /\ err = "NoScriptsEnabled"
             /\ fetched = <<>> /\ merge_calls = 0 /\ Unwritten
    /\ (pc \in {"merge", "post", "cleanup", "done", "failed"}
          /\ EnabledOf(scripts) # <<>>
          /\ Len(iterations) = Len(enabled)
          /\ Outcomes \subseteq Skipped)
          => /\ pc = "failed" /\ err = "AllSubsetsEmpty"
             /\ merge_calls = 0 /\ Unwritten

\* C8 witness: two enabled scripts, one skipped for an empty remainder and one for no
\* matching glyphs, and the build has failed.
C8_Witness ==
    /\ pc = "failed"
    /\ err = "AllSubsetsEmpty"
    /\ Outcomes = Skipped

\* the running iteration is about to skip its script: nothing remains after dedup, or
\* the source font maps none of the remaining codepoints
AboutToSkip ==
    /\ pc = "subset"
    /\ idx <= Len(enabled)
    /\ \E resolved \in {_resolve_codepoints(enabled[idx])} :
          /\ resolved.st = "returned"
          /\ \E remaining \in {SeqToSet(resolved.cps) \ covered_cps} :
                \/ remaining = {}
                \/ remaining \cap FontCmap(font_paths[enabled[idx].name]) = {}

\* C9: a skipped script does not abort the build: covered_cps, subset_entries and the
\* subset files are unchanged and the loop moves on to the next enabled script.
C9_SkipLeavesStateAndContinues ==
    [][AboutToSkip =>
          /\ covered_cps' = covered_cps
          /\ subset_entries' = subset_entries
          /\ files' = files
          /\ pc' = "subset" /\ err' = ""
          /\ idx' = idx + 1]_vars

\* C9 witness: the first script was skipped, the second subset, and the build completed.
C9_Witness ==
    /\ pc = "done"
    /\ Len(iterations) = 2
    /\ iterations[1].outcome \in Skipped
    /\ iterations[2].outcome = "subset"

\* C10: the scratch directory no longer exists when build() returns or exits with an error.
C10_WorkDirRemovedOnExit ==
    Terminal => work_dir # "exists"

\* What does hold: the scratch directory is removed when build() returns.
WorkDirRemovedOnReturn ==
    pc = "done" => work_dir = "removed"

\* the font of the first enabled script
FirstEnabledFont == enabled[1].font

\* the target ratio has been determined (line 119) and the build has not failed
TargetKnown == pc \in {"scale", "merge", "post", "cleanup", "done"}

\* C11: when the configured target cap ratio is <= 0, the target ratio applied to the
\* scale-eligible subsets is the cap-height / units-per-em ratio of the first enabled
\* script, also when that script was skipped (stated for enabled scripts of distinct
\* names, so that each script has its own source font and subset file).
C11_TargetFromFirstEnabled ==
    (TargetKnown /\ target_cap_ratio.n <= 0 /\ DistinctNames) =>
        /\ target_ratio = _get_cap_ratio(FontMetrics(FirstEnabledFont))
        /\ \A k \in 1..Len(scale_log) :
              scale_log[k].target = _get_cap_ratio(FontMetrics(FirstEnabledFont))

\* the iteration that last wrote the file the first entry of subset_entries names
FirstPathSource ==
    LET p == subset_entries[1].path
        ks == {k \in 1..Len(iterations) :
                  iterations[k].outcome = "subset" /\ iterations[k].name = p}
        last == CHOOSE k \in ks : \A j \in ks : j <= k
    IN  iterations[last].src

\* What does hold: the target is the ratio of the file at subset_paths[0], the subset of
\* the first script that was not skipped (of the last one written there when two
\* scripts share a name).
TargetFromFirstSubsetFile ==
    (TargetKnown /\ target_cap_ratio.n <= 0) =>
        /\ target_ratio = _get_cap_ratio(FontMetrics(FirstPathSource))
        /\ \A k \in 1..Len(scale_log) : scale_log[k].target = target_ratio

\* |x - 1| < 1/per for a double x < 2^LimbBits, decided exactly on the integers:
\* per * |m - 2^(-e)| < 2^(-e)
WithinOneIn(x, per) ==
    \E one \in {BigShl(BigOf(1), 0 - x.e)} :
    \E diff \in {IF BigLess(x.m, one) THEN Borrow(one, x.m, 1, 0) ELSE Borrow(x.m, one, 1, 0)} :
        BigLess(BigMulSmall(diff, per), one)

\* C12: _scale_to_target leaves a subset unmodified (outlines, widths, cap-height and
\* x-height metadata, file not rewritten) whenever |scale - 1| < 0.001 for the scale it
\* computes, scale = target ratio / (cap height / units per em), and rewrites the file
\* with rescaled metadata when |scale - 1| >= 0.001 and the cap height is positive.
C12_NoOpThreshold ==
    \A k \in 1..Len(scale_log) :
        \E c \in {scale_log[k]} :
            c.before.cap > 0 =>
                /\ c.scale = FlDiv(c.target, Ratio(c.before.cap, c.before.upm))
                /\ IF WithinOneIn(c.scale, 1000)
                   THEN ~c.saved /\ c.after = c.before
                   ELSE /\ c.saved
                        /\ c.after.cap = ScaleRound(c.before.cap, c.scale)
                        /\ c.after.xh = ScaleRound(c.before.xh, c.scale)

\* C12 witness: one build made a call that was a no-op for a scale other than 1.0, and a
\* call that rewrote the file for a scale less than 1% away from 1.0.
C12_Witness ==
    /\ \E k \in 1..Len(scale_log) :
          /\ scale_log[k].before.cap > 0
          /\ ~scale_log[k].saved
          /\ scale_log[k].scale # FlOfInt(1)
    /\ \E k \in 1..Len(scale_log) :
          /\ scale_log[k].saved
          /\ WithinOneIn(scale_log[k].scale, 100)
          /\ scale_log[k].after.cap # scale_log[k].before.cap

\* C13: in merge_fonts with N >= 2 inputs, every font handed to the merger has the
\* units-per-em of the first input, whatever the inputs' units-per-em and outline formats.
C13_HandedFontsShareUpm ==
    \A k \in 1..Len(handed) : handed[k].upm = m_inputs[1].upm

\* C13 witness: the merger was handed fonts made from inputs of two units-per-em values,
\* one of them rebuilt by a format conversion and one from CID-keyed to name-keyed.
C13_Witness ==
    /\ Len(handed) >= 2
    /\ \E i, j \in 1..Len(m_inputs) : m_inputs[i].upm # m_inputs[j].upm
    /\ \E i \in 1..Len(m_inputs) :
          m_inputs[i].upm # m_inputs[1].upm /\ handed[i].outline # m_inputs[i].outline
    /\ \E i \in 1..Len(m_inputs) : m_inputs[i].cid

\* the codepoint-to-glyph mappings of a map
Mappings(map) == {<<cp, map[cp]>> : cp \in DOMAIN map}

\* the character maps of the inputs are pairwise disjoint
DisjointInputs ==
    \A i, j \in 1..Len(m_inputs) :
        i # j => DOMAIN getBestCmap(m_inputs[i]) \cap DOMAIN getBestCmap(m_inputs[j]) = {}

\* C14: for inputs with pairwise disjoint character maps, the character map of the
\* merged font is a single format-12 table holding exactly the union of the inputs'
\* codepoint-to-glyph mappings; the union does not depend on the order of the inputs, so
\* the mapped codepoints and the input supplying each glyph are the same for every
\* permutation.
C14_MergedCmapIsUnion ==
    (m_pc = "done" /\ Len(m_inputs) >= 2 /\ DisjointInputs) =>
        /\ Len(m_output.font.cmap) = 1
        /\ m_output.font.cmap[1].format = 12
        /\ Mappings(m_output.font.cmap[1].map) =
              UNION {Mappings(getBestCmap(m_inputs[k])) : k \in 1..Len(m_inputs)}

\* C14 witness: three inputs with disjoint character maps were merged, one of them
\* converted, with codepoints on both sides of U+FFFF.
C14_Witness ==
    /\ m_pc = "done" /\ Len(m_inputs) = 3 /\ DisjointInputs
    /\ \E k \in 1..3 : handed[k].outline # m_inputs[k].outline
    /\ \E cp \in DOMAIN m_output.font.cmap[1].map : cp > 65535
    /\ \E cp \in DOMAIN m_output.font.cmap[1].map : cp <= 65535

\* For inputs that share a codepoint the first input that maps it supplies the glyph.
OverlapFirstInputWins ==
    (m_pc = "done" /\ Len(m_inputs) >= 2) =>
        \A cp \in DOMAIN m_output.font.cmap[1].map :
            \E k \in 1..Len(m_inputs) :
                /\ cp \in DOMAIN getBestCmap(m_inputs[k])
                /\ m_output.font.cmap[1].map[cp] = getBestCmap(m_inputs[k])[cp]
                /\ \A j \in 1..(k - 1) : cp \notin DOMAIN getBestCmap(m_inputs[j])

\* C15: with exactly one input font, merge_fonts writes an output identical to that
\* input, whatever the drop-table list: nothing is converted, scaled, stripped or
\* rebuilt, and nothing is handed to the merger.
C15_SingleInputIsCopied ==
    (Len(m_inputs) = 1 /\ m_pc # "start") =>
        /\ m_pc = "done" /\ m_err = ""
        /\ m_output.kind = "written"
        /\ m_output.font = m_inputs[1]
        /\ processed = <<>> /\ handed = <<>>

\* C15 witness: the single input was copied with a table the drop list names, and
\* with its two cmap subtables.
C15_Witness ==
    /\ m_pc = "done" /\ Len(m_inputs) = 1
    /\ m_output.font = m_inputs[1]
    /\ m_output.font.tables \cap SeqToSet(m_drop) # {}
    /\ Len(m_output.font.cmap) = 2

\* the codepoints the ranges p_items denote
RangeCps == UNION {p_items[k].a..p_items[k].b : k \in 1..Len(p_items)}

StrictlyIncreasing(q) == \A i, j \in 1..Len(q) : i < j => q[i] < q[j]

\* C16: _resolve_codepoints returns, for a script with a charset file, the sorted
\* duplicate-free union of the charset's codepoints and the codepoints of its ranges
\* (the charset alone when the script has no ranges), and for a script without a charset
\* file exactly the codepoints of its ranges.
C16_ResolvedCodepoints ==
    (r_result.st # "none" /\ \A k \in 1..Len(p_items) : p_items[k].kind \in WellFormedKinds) =>
        /\ r_result.st = "returned"
        /\ StrictlyIncreasing(r_result.cps)
        /\ r_charset # "" =>
              SeqToSet(r_result.cps) = SeqToSet(CharsetCps(r_charset)) \cup RangeCps
        /\ (r_charset # "" /\ p_items = <<>>) => r_result.cps = CharsetCps(r_charset)
        /\ r_charset = "" =>
              /\ SeqToSet(r_result.cps) = RangeCps
              /\ r_result = parse_unicode_ranges(Texts(p_items))

\* C16 witness: a charset and two ranges were resolved; a range overlaps the charset and
\* adds codepoints to it, and the charset has a codepoint outside the ranges.
C16_Witness ==
    /\ r_result.st = "returned"
    /\ r_charset # ""
    /\ Len(p_items) = 2
    /\ SeqToSet(CharsetCps(r_charset)) \cap RangeCps # {}
    /\ RangeCps \ SeqToSet(CharsetCps(r_charset)) # {}
    /\ SeqToSet(CharsetCps(r_charset)) \ RangeCps # {}
    /\ Len(r_result.cps) < Len(CharsetCps(r_charset)) + Cardinality(RangeCps)

\* _download is running for the font of enabled[idx]
Downloading == pc = "download" /\ attempt >= 1

EnabledFonts ==
    LET RECURSIVE fonts(_)
        fonts(k) == IF k > Len(scripts) THEN <<>>
                    ELSE (IF scripts[k].enabled THEN <<scripts[k].font>> ELSE <<>>) \o fonts(k + 1)
    IN  fonts(1)

\* the build has entered step 2: the scratch directory, a subsetting iteration, a subset
\* file or an output exists
SubsettingBegun ==
    \/ work_dir # "none"
    \/ iterations # <<>>
    \/ \E n \in Names : files[n].exists
    \/ subset_entries # <<>>
    \/ merge_calls > 0
    \/ ~Unwritten

\* C18: build() calls ensure_font once for each enabled script, in order, and for no
\* other script; all the calls have returned before the scratch directory is made and
\* the first subsetting step runs; and when a download fails the build ends with no
\* scratch directory, subset or output made.
C18_FetchesPrecedeSubsetting ==
    /\ Len(fetched) <= Len(EnabledFonts)
    /\ fetched = SubSeq(EnabledFonts, 1, Len(fetched))
    /\ SubsettingBegun
          => /\ fetched = EnabledFonts
             /\ attempt = 0
             /\ \A k \in 1..Len(fetched) : fetched[k] \in cache
    /\ (err = "DownloadFailed")
          => /\ pc = "failed"
             /\ ~SubsettingBegun
    /\ (pc = "done") => fetched = EnabledFonts

\* C18 witness: a disabled script followed by an enabled one with another font; only the
\* enabled script's font was fetched, and the subsetting loop has then handled it.
C18_Witness ==
    /\ Len(scripts) = 2
    /\ ~scripts[1].enabled
    /\ scripts[2].enabled
    /\ scripts[2].font # scripts[1].font
    /\ fetched = <<scripts[2].font>>
    /\ work_dir = "exists"
    /\ Len(iterations) = 1

\* The abort of C18 is reached: the second download failed after the first font was
\* fetched, and the build ended without a scratch directory.
DownloadAbortReached ==
    /\ err = "DownloadFailed"
    /\ Len(fetched) = 2
    /\ work_dir = "none"

\* the call logged as c rescaled the glyphs of its subset by c.scale: every outline was
\* redrawn through the transform, every advance width and left-side bearing rounded
GlyphsRescaled(c) ==
    /\ c.after.drawn = Append(c.before.drawn, c.scale)
    /\ c.after.width = ScaleRound(c.before.width, c.scale)
    /\ c.after.lsb = ScaleRound(c.before.lsb, c.scale)

\* C19: whenever _scale_to_target rescales the cap-height and x-height metadata of a
\* subset by a factor, it has rescaled every outline, advance width and left-side bearing
\* of the subset by the same factor, for CFF and for glyf outlines alike.
C19_MetadataScaledWithOutlines ==
    \A k \in 1..Len(scale_log) :
        scale_log[k].saved => GlyphsRescaled(scale_log[k])

\* What the code does: the glyphs are rescaled with the metadata for "CFF " subsets, and
\* left as they were for every other subset whose metadata is rescaled.
GlyphsRescaledForCffOnly ==
    \A k \in 1..Len(scale_log) :
        \E c \in {scale_log[k]} :
            c.saved =>
                IF c.before.outline = "CFF " THEN GlyphsRescaled(c)
                ELSE /\ c.after.drawn = c.before.drawn
                     /\ c.after.width = c.before.width
                     /\ c.after.lsb = c.before.lsb
                     /\ c.after.cap = ScaleRound(c.before.cap, c.scale)

\* the objects reachable from the BuildConfig object ref: itself and its scripts
ObjectsOf(h, ref) == {ref} \cup SeqToSet(h[ref].scripts)

\* C20: the covered set belongs to one call of build(): in build_all the subsetting loop
\* of every weight starts with an empty covered set and offers each script its resolved
\* codepoints minus the character maps of the subsets made earlier in the same build,
\* whatever the builds of other weights covered; each weight is built from a copy that
\* shares no object with the configuration passed in, which stays as it was given.
C20_CoveredSetScopedToBuild ==
    (a_pc # "idle") =>
        /\ (pc = "subset" /\ iterations = <<>>) => covered_cps = {}
        /\ \A k \in 1..Len(iterations) :
              /\ iterations[k].covered_before = UNION {iterations[j].cmap : j \in 1..(k - 1)}
              /\ SeqToSet(iterations[k].requested) =
                    SeqToSet(iterations[k].resolved) \ UNION {iterations[j].cmap : j \in 1..(k - 1)}
        /\ ConfigAt(heap, 0) = given
        /\ (a_pc = "building" /\ heap[0].weights # <<>>)
              => /\ ObjectsOf(heap, cfg) \cap ObjectsOf(heap, 0) = {}
                 /\ heap[cfg].style = heap[0].weights[a_i]

\* C20 witness: the build of the first weight covered codepoints and returned; the build
\* of the second weight, from a copy whose first font was renamed, offered its first
\* script codepoints that the first weight had covered, with an empty covered set.
C20_Witness ==
    /\ a_pc = "building"
    /\ a_i = 2
    /\ Len(built) = 1
    /\ Len(iterations) >= 1
    /\ iterations[1].covered_before = {}
    /\ SeqToSet(iterations[1].requested) \cap built[1].covered # {}
    /\ ConfigAt(heap, cfg).scripts[1].font # given.scripts[1].font

\* C21: in build_all, the build of weight W gets, for every script that lists no weights
\* or lists W, the font name and URL with "Regular" replaced by W, and for every script
\* whose weights do not include W the font name and URL as configured; its output is
\* named <name>-<W>.otf, and so is the path build_all returns for it.
C21_WeightNamesAndOutput ==
    /\ (a_pc = "building" /\ heap[0].weights # <<>>) =>
          \E W \in {heap[0].weights[a_i]} :
          \E c \in {ConfigAt(heap, cfg)} :
             /\ c.output = given.name \o "-" \o W \o ".otf"
             /\ Len(c.scripts) = Len(given.scripts)
             /\ scripts = c.scripts
             /\ \A k \in 1..Len(given.scripts) :
                   \E g \in {given.scripts[k]} :
                      IF g.weights = <<>> \/ (\E j \in 1..Len(g.weights) : g.weights[j] = W)
                      THEN /\ c.scripts[k].font = Replace(g.font, "Regular", W)
                           /\ c.scripts[k].url = Replace(g.url, "Regular", W)
                      ELSE /\ c.scripts[k].font = g.font
                           /\ c.scripts[k].url = g.url
    /\ (a_pc # "idle" /\ given.weights # <<>>) =>
          \A k \in 1..Len(outputs) :
             outputs[k] = given.name \o "-" \o given.weights[k] \o ".otf"

\* C21 witness: weight Light is being built after Bold was; the first script lists no
\* weights and is fetched as Fa-Light from Light/Fa-Light, the second lists only Bold and
\* keeps Fb-Regular and its URL; the output is Op-Light.otf.
C21_Witness ==
    /\ a_pc = "building"
    /\ given.weights = <<"Bold", "Light">>
    /\ a_i = 2
    /\ outputs = <<"Op-Bold.otf">>
    /\ Len(scripts) = 2
    /\ given.scripts[1].font = "Fa-Regular" /\ given.scripts[1].weights = <<>>
    /\ scripts[1].font = "Fa-Light" /\ scripts[1].url = "Light/Fa-Light"
    /\ given.scripts[2].weights = <<"Bold">>
    /\ scripts[2].font = "Fb-Regular" /\ scripts[2].url = "Regular/Fb-Regular"
    /\ heap[cfg].output = "Op-Light.otf"
    /\ fetched = <<"Fa-Light", "Fb-Regular">>

\* the entry field a line of the .pot text opens: msgid and msgid_plural open source
\* text, msgstr and msgstr[n] open translation text, a line starting with a quote
\* continues the field open before it
KeywordOf(line) ==
    IF StartsWith(line, <<"m", "s", "g", "i", "d">>) THEN "msgid"
    ELSE IF StartsWith(line, <<"m", "s", "g", "s", "t", "r">>) THEN "msgstr"
    ELSE IF StartsWith(line, <<"\"">>) THEN "continuation"
    ELSE "other"

\* the field line k of e_lines belongs to: the one opened by the last keyword line
FieldAt(k) ==
    LET opened == {j \in 1..k : KeywordOf(e_lines[j]) \in {"msgid", "msgstr"}}
    IN  IF KeywordOf(e_lines[k]) = "other" \/ opened = {} THEN "none"
        ELSE KeywordOf(e_lines[CHOOSE j \in opened : \A i \in opened : i <= j])

\* the codepoints above 0x7F of the lines of e_lines that belong to field
NonAsciiIn(field) ==
    UNION { {ord(c) : c \in SeqToSet(e_lines[k]) \cap {"E", "I", "N", "O", "U"}} :
                k \in {j \in 1..Len(e_lines) : FieldAt(j) = field} }

\* C22: extract_from_pot returns only codepoints above 0x7F that occur in msgid text
\* (msgid and msgid_plural lines and their continuation lines); a character that
\* occurs only in translation text (msgstr and msgstr[n] lines and their continuation
\* lines) is never returned.
C22_OnlyMsgidCodepoints ==
    (e_result.st = "returned") =>
        /\ \A cp \in e_result.cps : cp > 127
        /\ e_result.cps \subseteq NonAsciiIn("msgid")
        /\ e_result.cps \cap (NonAsciiIn("msgstr") \ NonAsciiIn("msgid")) = {}

\* What the code does: the claim holds for texts without msgstr[n] lines, and the text
\* on a msgstr or msgstr[n] keyword line itself is never read.
SingularEntriesOnlyMsgid ==
    (e_result.st = "returned") =>
        /\ \A cp \in e_result.cps : cp > 127
        /\ (\A k \in 1..Len(e_lines) : ~StartsWith(e_lines[k], <<"m", "s", "g", "s", "t", "r", "[">>))
              => e_result.cps \subseteq NonAsciiIn("msgid")
        /\ (\A k \in 1..Len(e_lines) : KeywordOf(e_lines[k]) # "continuation")
              => e_result.cps \cap (NonAsciiIn("msgstr") \ NonAsciiIn("msgid")) = {}
====
